---- MODULE Spec2Model ----
(***************************************************************************)
(* Model of foreflight-bridge.py: the ForeFlight line parser, the SimData  *)
(* holder with its lock, the UDP ingest loop, the WebSocket broadcast loop *)
(* with its connection handlers and the set of connections it iterates,    *)
(* and the orchestrator that gathers them.                                 *)
(*                                                                         *)
(* Text is a sequence of one-character strings.  Numbers are integers: the *)
(* alphabet of the modelled datagrams has digits and a sign only, so every *)
(* numeric field that float() accepts is a signed decimal integer.         *)
(* METERS_TO_FEET and MPS_TO_KTS are kept in units of 10^-5.               *)
(***************************************************************************)
EXTENDS Integers, Sequences, FiniteSets, TLC

VARIABLES
    xgps,              \* SimData.xgps: latest XGPSData or None
    xatt,              \* SimData.xatt: latest XATTData or None
    lock,              \* SimData._lock: "free" or the task holding it
    ingest_pc,         \* position of ForeFlightUDPServer.run
    parsed_obj,        \* run()'s local parsed_obj
    recv_thread,       \* the to_thread worker: "idle" or "blocked" in recvfrom
    bcast_pc,          \* position of ShirleyWebSocketServer.run / broadcast_loop
    l_xgps,            \* get_data_snapshot's local xgps
    l_xatt,            \* get_data_snapshot's local xatt
    data,              \* broadcast_loop's local data (the message sent)
    connections,       \* ShirleyWebSocketServer.connections
    set_fill,          \* the set's hash table: slots holding a member or a
                       \* deleted-member mark
    set_mask,          \* the set's hash table: number of slots, less one
    it_used,           \* the set iterator's recorded size of the set
    it_todo,           \* members the set iterator has still to yield
    ws,                \* broadcast_loop's loop variable
    stale_connections, \* broadcast_loop's local stale_connections
    status,            \* per websocket: "new", "open", "closed", "done",
                       \* "keyerror" (the handler's cleanup raised)
    bridge,            \* asyncio.run(bridge.run()): "running", "shutdown", "exited"
    line,              \* input of the parser specification
    result,            \* output of the parser specification
    hist               \* history: what the claims below refer back to

vars == <<xgps, xatt, lock, ingest_pc, parsed_obj, recv_thread, bcast_pc,
          l_xgps, l_xatt, data, connections, set_fill, set_mask, it_used,
          it_todo, ws, stale_connections, status, bridge, line, result, hist>>

(***************************************************************************)
(* Bounds of the model.                                                    *)
(***************************************************************************)
NumConns == 2

MaxFields == 6

MaxChurn == 3

MaxNameLen == 2

Conns == 1..NumConns

(***************************************************************************)
(* Text helpers: str.strip, str.startswith, str.split(","), float().       *)
(***************************************************************************)
Whitespace == {" ", "\n"}

DigitChars == <<"0", "1", "2", "3", "4", "5", "6", "7", "8", "9">>

IsDigit(c) == \E i \in 1..Len(DigitChars) : DigitChars[i] = c

DigitVal(c) == (CHOOSE i \in 1..Len(DigitChars) : DigitChars[i] = c) - 1

RECURSIVE lstrip(_)
lstrip(s) ==
    IF s # <<>> /\ Head(s) \in Whitespace THEN lstrip(Tail(s)) ELSE s

RECURSIVE rstrip(_)
rstrip(s) ==
    IF s # <<>> /\ s[Len(s)] \in Whitespace
    THEN rstrip(SubSeq(s, 1, Len(s) - 1))
    ELSE s

strip(s) == rstrip(lstrip(s))

startswith(s, p) == Len(s) >= Len(p) /\ SubSeq(s, 1, Len(p)) = p

RECURSIVE splitFrom(_, _)
splitFrom(s, cur) ==
    IF s = <<>> THEN <<cur>>
    ELSE IF Head(s) = "," THEN <<cur>> \o splitFrom(Tail(s), <<>>)
    ELSE splitFrom(Tail(s), Append(cur, Head(s)))

split(s) == splitFrom(s, <<>>)

RECURSIVE NatVal(_)
NatVal(s) ==
    IF s = <<>> THEN 0
    ELSE NatVal(SubSeq(s, 1, Len(s) - 1)) * 10 + DigitVal(s[Len(s)])

\* float(s): surrounding whitespace is ignored, then an optional sign and at
\* least one digit; anything else raises ValueError.
float(s) ==
    LET t == strip(s)
        signed == t # <<>> /\ Head(t) \in {"+", "-"}
        body == IF signed THEN Tail(t) ELSE t
    IN  IF body # <<>> /\ \A i \in 1..Len(body) : IsDigit(body[i])
        THEN [exc |-> "none",
              val |-> IF signed /\ Head(t) = "-" THEN 0 - NatVal(body)
                      ELSE NatVal(body)]
        ELSE [exc |-> "ValueError", val |-> 0]

\* float(parts[i]) with Python's 0-based index i: IndexError past the end.
float_at(parts, i) ==
    IF i + 1 > Len(parts) THEN [exc |-> "IndexError", val |-> 0]
    ELSE float(parts[i + 1])

(***************************************************************************)
(* Parsed records.                                                         *)
(***************************************************************************)
None == [type |-> "None"]

UnknownData(raw) == [type |-> "UnknownData", raw_line |-> raw]

Raised(e) == [type |-> "Raised", exc |-> e]

\* An except clause that names ValueError only.
ParseCaught_ValueErrorOnly == {"ValueError"}

\* The exception classes the except clauses of _parse_xgps/_parse_xatt catch.
ParseCaught == {"ValueError", "IndexError"}

\* First exception among the evaluated conversions, in evaluation order.
FirstExc(fs) ==
    IF \A i \in 1..Len(fs) : fs[i].exc = "none" THEN "none"
    ELSE fs[CHOOSE i \in 1..Len(fs) :
                /\ fs[i].exc # "none"
                /\ \A j \in 1..(i - 1) : fs[j].exc = "none"].exc

\* A parser that forgets the last field: four conversions, speed left 0.
_parse_xgps_short(ln) ==
    LET raw == SubSeq(ln, 5, Len(ln))
        parts == split(raw)
        fs == [i \in 1..4 |-> float_at(parts, i)]
        e == FirstExc(fs)
    IN  IF e = "none"
        THEN [type |-> "XGPSData",
              sim_name |-> strip(parts[1]),
              longitude |-> fs[1].val,
              latitude |-> fs[2].val,
              alt_msl_meters |-> fs[3].val,
              track_deg |-> fs[4].val,
              ground_speed_mps |-> 0]
        ELSE UnknownData(ln)

_parse_xgps(ln) ==
    LET raw == SubSeq(ln, 5, Len(ln))
        parts == split(raw)
        fs == [i \in 1..5 |-> float_at(parts, i)]
        e == FirstExc(fs)
    IN  IF e = "none"
        THEN [type |-> "XGPSData",
              sim_name |-> strip(parts[1]),
              longitude |-> fs[1].val,
              latitude |-> fs[2].val,
              alt_msl_meters |-> fs[3].val,
              track_deg |-> fs[4].val,
              ground_speed_mps |-> fs[5].val]
        ELSE IF e \in ParseCaught THEN UnknownData(ln)
        ELSE Raised(e)

\* A parser that reads the pitch and the roll in the wrong order.
_parse_xatt_swapped(ln) ==
    LET raw == SubSeq(ln, 5, Len(ln))
        parts == split(raw)
        fs == [i \in 1..3 |-> float_at(parts, i)]
        e == FirstExc(fs)
    IN  IF e = "none"
        THEN [type |-> "XATTData",
              sim_name |-> strip(parts[1]),
              heading_deg |-> fs[1].val,
              pitch_deg |-> fs[3].val,
              roll_deg |-> fs[2].val]
        ELSE UnknownData(ln)

_parse_xatt(ln) ==
    LET raw == SubSeq(ln, 5, Len(ln))
        parts == split(raw)
        fs == [i \in 1..3 |-> float_at(parts, i)]
        e == FirstExc(fs)
    IN  IF e = "none"
        THEN [type |-> "XATTData",
              sim_name |-> strip(parts[1]),
              heading_deg |-> fs[1].val,
              pitch_deg |-> fs[2].val,
              roll_deg |-> fs[3].val]
        ELSE IF e \in ParseCaught THEN UnknownData(ln)
        ELSE Raised(e)

parse_line(raw_line) ==
    LET ln == strip(raw_line)
    IN  IF startswith(ln, <<"X", "G", "P", "S">>) THEN _parse_xgps(ln)
        ELSE IF startswith(ln, <<"X", "A", "T", "T">>) THEN _parse_xatt(ln)
        ELSE UnknownData(ln)

(***************************************************************************)
(* SimData.                                                                *)
(***************************************************************************)
METERS_TO_FEET == 328084

MPS_TO_KTS == 194384

\* A remainder that takes the sign of the dividend (C's fmod).
heading_mod_trunc(h) == IF h < 0 THEN 0 - ((0 - h) % 360) ELSE h % 360

\* Python's float % 360.0: the result takes the sign of the divisor.
heading_mod(h) == h % 360

\* A merge that reads the attitude record only inside the "if xgps:" block.
data_snapshot_nested(g, a) ==
    LET has_g == g # None
        has_a == has_g /\ a # None
        heading0 == IF has_g THEN heading_mod(g.track_deg) ELSE 0
    IN  [position |->
            [latitudeDeg |-> IF has_g THEN g.latitude ELSE 0,
             longitudeDeg |-> IF has_g THEN g.longitude ELSE 0,
             mslAltitudeFt |->
                 IF has_g THEN g.alt_msl_meters * METERS_TO_FEET ELSE 0,
             gpsGroundSpeedKts |->
                 IF has_g THEN g.ground_speed_mps * MPS_TO_KTS ELSE 0],
         attitude |->
            [rollAngleDegRight |-> IF has_a THEN a.roll_deg ELSE 0,
             pitchAngleDegUp |-> IF has_a THEN a.pitch_deg ELSE 0,
             trueHeadingDeg |->
                 IF has_a THEN heading_mod(a.heading_deg) ELSE heading0]]

\* A merge that leaves a block out of the dictionary while no record of
\* its kind is stored.
data_snapshot_sparse(g, a) ==
    IF g = None /\ a = None THEN [position |-> <<>>, attitude |-> <<>>]
    ELSE data_snapshot_nested(g, a)

\* The body of get_data_snapshot after the two reads: defaults, then the
\* "if xgps:" block, then the "if xatt:" block, then the dictionary.
data_snapshot(g, a) ==
    LET has_g == g # None
        has_a == a # None
        heading0 == IF has_g THEN heading_mod(g.track_deg) ELSE 0
    IN  [position |->
            [latitudeDeg |-> IF has_g THEN g.latitude ELSE 0,
             longitudeDeg |-> IF has_g THEN g.longitude ELSE 0,
             mslAltitudeFt |->
                 IF has_g THEN g.alt_msl_meters * METERS_TO_FEET ELSE 0,
             gpsGroundSpeedKts |->
                 IF has_g THEN g.ground_speed_mps * MPS_TO_KTS ELSE 0],
         attitude |->
            [rollAngleDegRight |-> IF has_a THEN a.roll_deg ELSE 0,
             pitchAngleDegUp |-> IF has_a THEN a.pitch_deg ELSE 0,
             trueHeadingDeg |->
                 IF has_a THEN heading_mod(a.heading_deg) ELSE heading0]]

\* A lock that never makes anybody wait.
lock_always(l) == TRUE

\* asyncio.Lock.acquire proceeds only when the lock is not held.
lock_acquirable(l) == l = "free"

\* An update that keeps the name of the record it replaces.
assign_record_merge(old, new) ==
    IF old = None THEN new ELSE [new EXCEPT !.sim_name = old.sim_name]

\* self.xgps = xgps / self.xatt = xatt: the stored reference is replaced.
assign_record(old, new) == new

(***************************************************************************)
(* Datagrams the producer sends in the model (bytes, one symbol each;      *)
(* "<ff>" is a byte that is not valid UTF-8).                              *)
(***************************************************************************)
XGPS == <<"X", "G", "P", "S">>

XATT == <<"X", "A", "T", "T">>

\* "XGPSa,1,2,3,370,5\n"
DgramG1 == XGPS \o <<"a", ",", "1", ",", "2", ",", "3", ",",
                    "3", "7", "0", ",", "5", "\n">>

\* "XGPSb,-7,8,9,90,4"
DgramG2 == XGPS \o <<"b", ",", "-", "7", ",", "8", ",", "9", ",",
                    "9", "0", ",", "4">>

\* "XATTa,-5,1,2\n"
DgramA1 == XATT \o <<"a", ",", "-", "5", ",", "1", ",", "2", "\n">>

\* "XATTb,725,-3,4"
DgramA2 == XATT \o <<"b", ",", "7", "2", "5", ",", "-", "3", ",", "4">>

\* an undecodable byte, then "XGPSa,1,x,3"
DgramU1 == <<"<ff>">> \o XGPS \o <<"a", ",", "1", ",", "x", ",", "3">>

\* "XTRa,1": a prefix the parser does not recognise
DgramU2 == <<"X", "T", "R", "a", ",", "1">>

Datagrams == {DgramG1, DgramG2, DgramA1, DgramA2, DgramU1, DgramU2}

\* bytes.decode('utf-8', errors='ignore'): invalid bytes are dropped.
IsValidByte(b) == b # "<ff>"

decode(bytes) == SelectSeq(bytes, IsValidByte)

(***************************************************************************)
(* The hash table behind self.connections = set() (CPython).               *)
(***************************************************************************)
\* The set's table as CPython builds it: 8 slots at first.
PySet_MINSIZE == 8

\* set_add_entry: the table is rebuilt when 3/5 of its slots are in use.
needs_resize(fill, mask) == fill * 5 >= mask * 3

\* set_table_resize: the smallest power of two above minused, from 8 up.
RECURSIVE table_size(_, _)
table_size(newsize, minused) ==
    IF newsize <= minused THEN table_size(newsize * 2, minused) ELSE newsize

\* What set.add of a new member does to the table, used being the number
\* of members after it: the member takes the slot of a deleted-member mark
\* met on its probe sequence, if there is one, or a fresh slot, and a fresh
\* slot that fills the table to 3/5 makes set_table_resize rebuild it with
\* room for 4 * used members and no marks.
set_add(fill, mask, used) ==
    (IF fill >= used
     THEN {[fill |-> fill, mask |-> mask, resized |-> FALSE]}
     ELSE {})
    \cup
    {IF needs_resize(fill + 1, mask)
     THEN [fill |-> used,
           mask |-> table_size(PySet_MINSIZE, 4 * used) - 1,
           resized |-> TRUE]
     ELSE [fill |-> fill + 1, mask |-> mask, resized |-> FALSE]}

(***************************************************************************)
(* Initial state: the objects as ForeFlightToShirleyBridge.__init__ builds *)
(* them, before bridge.run() has taken a step.                             *)
(***************************************************************************)
NoCount == [c \in Conns |-> 0]

HistInit ==
    [last_xgps |-> None,        \* last datagram that parsed as XGPS
     last_xatt |-> None,        \* last datagram that parsed as XATT
     unknown_seen |-> FALSE,    \* some datagram parsed as UnknownData
     churn |-> 0,               \* websocket names used again so far
     joined_after |-> {},       \* joined since this tick's data was computed
     tick_clean |-> TRUE,       \* no connection event since the tick began
     sent_count |-> NoCount]    \* successful sends per websocket, this tick

Init ==
    /\ xgps = None
    /\ xatt = None
    /\ lock = "free"
    /\ ingest_pc = "bind"
    /\ parsed_obj = None
    /\ recv_thread = "idle"
    /\ bcast_pc = "serve"
    /\ l_xgps = None
    /\ l_xatt = None
    /\ data = None
    /\ connections = {}
    /\ set_fill = 0
    /\ set_mask = PySet_MINSIZE - 1
    /\ it_used = 0
    /\ it_todo = {}
    /\ ws = 0
    /\ stale_connections = <<>>
    /\ status = [c \in Conns |-> "new"]
    /\ bridge = "running"
    /\ line = <<>>
    /\ result = None
    /\ hist = HistInit

simdata_vars == <<xgps, xatt, lock>>

ingest_vars == <<ingest_pc, parsed_obj, recv_thread>>

snapshot_vars == <<l_xgps, l_xatt, data>>

iter_vars == <<it_used, it_todo, ws, stale_connections>>

parser_vars == <<line, result>>

table_vars == <<set_fill, set_mask>>

InSeq(x, sq) == \E i \in 1..Len(sq) : sq[i] = x

(***************************************************************************)
(* ForeFlightUDPServer.run                                                 *)
(***************************************************************************)
\* socket(), setsockopt(), bind(): an OSError here leaves run() at once;
\* otherwise the loop starts its first recvfrom in a worker thread.
IngestBind ==
    /\ bridge = "running"
    /\ ingest_pc = "bind"
    /\ \/ ingest_pc' = "recv" /\ recv_thread' = "blocked"
       \/ ingest_pc' = "bind_failed" /\ recv_thread' = "idle"
    /\ UNCHANGED <<table_vars, simdata_vars, parsed_obj, bcast_pc,
                   snapshot_vars, connections, iter_vars, status, bridge,
                   parser_vars, hist>>

\* A loop that gives up on a datagram it cannot use.
route_strict(obj) ==
    CASE obj.type = "XGPSData" -> "update_from_xgps"
      [] obj.type = "XATTData" -> "update_from_xatt"
      [] OTHER -> "failed"

\* Where run() goes with a parsed object: the isinstance chain.
route(obj) ==
    CASE obj.type = "XGPSData" -> "update_from_xgps"
      [] obj.type = "XATTData" -> "update_from_xatt"
      [] obj.type = "Raised" -> "failed"
      [] OTHER -> "recv"

\* One datagram: recvfrom returns, decode, strip, parse_line, route.
IngestRecv(dgram) ==
    /\ bridge = "running"
    /\ ingest_pc = "recv"
    /\ LET obj == parse_line(strip(decode(dgram)))
       IN  /\ parsed_obj' = obj
           /\ ingest_pc' = route(obj)
           /\ recv_thread' = IF route(obj) = "recv" THEN "blocked" ELSE "idle"
           /\ hist' = [hist EXCEPT
                  !.last_xgps = IF obj.type = "XGPSData" THEN obj ELSE @,
                  !.last_xatt = IF obj.type = "XATTData" THEN obj ELSE @,
                  !.unknown_seen = @ \/ obj.type = "UnknownData"]
    /\ UNCHANGED <<table_vars, simdata_vars, bcast_pc, snapshot_vars,
                   connections, iter_vars, status, bridge, parser_vars>>

\* recvfrom raises OSError: nothing in run() catches it.
IngestRecvError ==
    /\ bridge = "running"
    /\ ingest_pc = "recv"
    /\ ingest_pc' = "failed"
    /\ recv_thread' = "idle"
    /\ UNCHANGED <<table_vars, simdata_vars, parsed_obj, bcast_pc,
                   snapshot_vars, connections, iter_vars, status, bridge,
                   parser_vars, hist>>

\* update_from_xgps / update_from_xatt: "async with self._lock".
UpdateAcquire ==
    /\ bridge = "running"
    /\ ingest_pc \in {"update_from_xgps", "update_from_xatt"}
    /\ lock_acquirable(lock)
    /\ lock' = "ingest"
    /\ ingest_pc' = IF ingest_pc = "update_from_xgps" THEN "xgps_locked"
                    ELSE "xatt_locked"
    /\ UNCHANGED <<table_vars, xgps, xatt, parsed_obj, recv_thread, bcast_pc,
                   snapshot_vars, connections, iter_vars, status, bridge,
                   parser_vars, hist>>

\* A position update that also discards the stored attitude record.
update_from_xgps_resets_attitude ==
    /\ ingest_pc = "xgps_locked"
    /\ xgps' = assign_record(xgps, parsed_obj)
    /\ xatt' = None
    /\ lock' = "free"
    /\ ingest_pc' = "recv"
    /\ recv_thread' = "blocked"
    /\ UNCHANGED <<table_vars, parsed_obj, bcast_pc, snapshot_vars,
                   connections, iter_vars, status, bridge, parser_vars, hist>>

\* An update that leaves its critical section without releasing the lock.
update_from_xgps_keeps_lock ==
    /\ ingest_pc = "xgps_locked"
    /\ xgps' = assign_record(xgps, parsed_obj)
    /\ ingest_pc' = "recv"
    /\ recv_thread' = "blocked"
    /\ UNCHANGED <<table_vars, xatt, lock, parsed_obj, bcast_pc,
                   snapshot_vars, connections, iter_vars, status, bridge,
                   parser_vars, hist>>

\* self.xgps = xgps, the lock is released, run() loops to the next recvfrom.
update_from_xgps ==
    /\ ingest_pc = "xgps_locked"
    /\ xgps' = assign_record(xgps, parsed_obj)
    /\ lock' = "free"
    /\ ingest_pc' = "recv"
    /\ recv_thread' = "blocked"
    /\ UNCHANGED <<table_vars, xatt, parsed_obj, bcast_pc, snapshot_vars,
                   connections, iter_vars, status, bridge, parser_vars,
                   hist>>

update_from_xatt ==
    /\ ingest_pc = "xatt_locked"
    /\ xatt' = assign_record(xatt, parsed_obj)
    /\ lock' = "free"
    /\ ingest_pc' = "recv"
    /\ recv_thread' = "blocked"
    /\ UNCHANGED <<table_vars, xgps, parsed_obj, bcast_pc, snapshot_vars,
                   connections, iter_vars, status, bridge, parser_vars,
                   hist>>

(***************************************************************************)
(* ShirleyWebSocketServer.handler: one task per accepted websocket.  The   *)
(* handlers and broadcast_loop run on one event loop, so a handler runs    *)
(* only while broadcast_loop is suspended in an await (ws.send or          *)
(* asyncio.sleep) or has ended.                                            *)
(***************************************************************************)
HandlersMayRun ==
    /\ bridge = "running"
    /\ bcast_pc \in {"send", "sleep", "aborted"}

\* A connection event during a tick, or before the tick's result is read.
DirtyTick(h) == [h EXCEPT !.tick_clean = FALSE]

\* What set.add can do to a running set iterator when the table is not
\* rebuilt: the new member lands in a slot before or after the iterator's
\* position.
todo_after_add(todo, c) == {todo, todo \cup {c}}

\* The members a running set iterator has still to yield after set.add: the
\* iterator keeps its slot index, so in a rebuilt table it meets whichever
\* members now lie at or after that index, yielded before or not.
todo_after(todo, c, conns, resized) ==
    IF resized THEN SUBSET conns ELSE todo_after_add(todo, c)

\* self.connections.add(websocket): websockets are numbered as accepted.
HandlerAccept(c) ==
    /\ HandlersMayRun
    /\ status[c] = "new"
    /\ \A d \in Conns : d < c => status[d] # "new"
    /\ status' = [status EXCEPT ![c] = "open"]
    /\ connections' = connections \cup {c}
    /\ \E t \in set_add(set_fill, set_mask, Cardinality(connections) + 1) :
           /\ set_fill' = t.fill
           /\ set_mask' = t.mask
           /\ IF bcast_pc = "send"
              THEN it_todo' \in todo_after(it_todo, c, connections', t.resized)
              ELSE it_todo' = it_todo
    /\ hist' = [DirtyTick(hist) EXCEPT
           !.joined_after = IF bcast_pc = "send" THEN @ \cup {c} ELSE @]
    /\ UNCHANGED <<simdata_vars, ingest_vars, bcast_pc, snapshot_vars,
                   it_used, ws, stale_connections, bridge, parser_vars>>

\* The peer closes or the connection breaks: "async for" will end.
HandlerClose(c) ==
    /\ HandlersMayRun
    /\ status[c] = "open"
    /\ status' = [status EXCEPT ![c] = "closed"]
    /\ hist' = DirtyTick(hist)
    /\ UNCHANGED <<table_vars, simdata_vars, ingest_vars, bcast_pc,
                   snapshot_vars, connections, iter_vars, bridge,
                   parser_vars>>

\* A cleanup that forgets to take the websocket out of the set.
HandlerFinally_forgets(c) ==
    /\ HandlersMayRun
    /\ status[c] = "closed"
    /\ status' = [status EXCEPT ![c] = "done"]
    /\ hist' = DirtyTick(hist)
    /\ UNCHANGED <<table_vars, simdata_vars, ingest_vars, bcast_pc,
                   snapshot_vars, connections, iter_vars, bridge,
                   parser_vars>>

\* finally: self.connections.remove(websocket); KeyError if it is absent.
HandlerFinally(c) ==
    /\ HandlersMayRun
    /\ status[c] = "closed"
    /\ IF c \in connections
       THEN /\ connections' = connections \ {c}
            /\ it_todo' = it_todo \ {c}
            /\ status' = [status EXCEPT ![c] = "done"]
       ELSE /\ UNCHANGED <<connections, it_todo>>
            /\ status' = [status EXCEPT ![c] = "keyerror"]
    /\ hist' = DirtyTick(hist)
    /\ UNCHANGED <<table_vars, simdata_vars, ingest_vars, bcast_pc,
                   snapshot_vars, it_used, ws, stale_connections, bridge,
                   parser_vars>>

\* The server creates the object of a further connection.  The model has
\* NumConns names for websockets: the name of a websocket whose handler has
\* returned, and to which nothing refers any more, names the new object,
\* up to MaxChurn times in all.
NewWebsocket(c) ==
    /\ bridge = "running"
    /\ hist.churn < MaxChurn
    /\ status[c] \in {"done", "keyerror"}
    /\ c \notin connections \cup it_todo
    /\ ws # c
    /\ ~InSeq(c, stale_connections)
    /\ status' = [status EXCEPT ![c] = "new"]
    /\ hist' = [hist EXCEPT !.sent_count[c] = 0, !.joined_after = @ \ {c},
                            !.churn = @ + 1]
    /\ UNCHANGED <<table_vars, simdata_vars, ingest_vars, bcast_pc,
                   snapshot_vars, connections, iter_vars, bridge,
                   parser_vars>>

(***************************************************************************)
(* ShirleyWebSocketServer.run and broadcast_loop                           *)
(***************************************************************************)
\* websockets.serve: an OSError (port in use) leaves run(); otherwise
\* broadcast_loop starts.  ForeFlightUDPServer.run is gathered first and
\* runs to its first await before this coroutine starts; when its bind has
\* failed, the cancellation reaches this coroutine before serve completes.
ServerServe ==
    /\ bridge = "running"
    /\ bcast_pc = "serve"
    /\ ingest_pc \notin {"bind", "bind_failed"}
    /\ \/ bcast_pc' = "snapshot"
       \/ bcast_pc' = "serve_failed"
    /\ UNCHANGED <<table_vars, simdata_vars, ingest_vars, snapshot_vars,
                   connections, iter_vars, status, bridge, parser_vars,
                   hist>>

\* get_data_snapshot: "async with self._lock".
SnapshotAcquire ==
    /\ bridge = "running"
    /\ bcast_pc = "snapshot"
    /\ lock_acquirable(lock)
    /\ lock' = "bcast"
    /\ bcast_pc' = "snap_xgps"
    /\ UNCHANGED <<table_vars, xgps, xatt, ingest_vars, snapshot_vars,
                   connections, iter_vars, status, bridge, parser_vars,
                   hist>>

\* xgps = self.xgps
SnapshotReadXgps ==
    /\ bcast_pc = "snap_xgps"
    /\ l_xgps' = xgps
    /\ bcast_pc' = "snap_xatt"
    /\ UNCHANGED <<table_vars, simdata_vars, ingest_vars, l_xatt, data,
                   connections, iter_vars, status, bridge, parser_vars,
                   hist>>

\* xatt = self.xatt
SnapshotReadXatt ==
    /\ bcast_pc = "snap_xatt"
    /\ l_xatt' = xatt
    /\ bcast_pc' = "snap_return"
    /\ UNCHANGED <<table_vars, simdata_vars, ingest_vars, l_xgps, data,
                   connections, iter_vars, status, bridge, parser_vars,
                   hist>>

\* The dictionary is built and returned, the lock released; broadcast_loop
\* serialises it, empties stale_connections and creates the set iterator.
SnapshotReturn ==
    /\ bcast_pc = "snap_return"
    /\ data' = data_snapshot(l_xgps, l_xatt)
    /\ lock' = "free"
    /\ stale_connections' = <<>>
    /\ it_used' = Cardinality(connections)
    /\ it_todo' = connections
    /\ bcast_pc' = "next"
    /\ l_xgps' = None
    /\ l_xatt' = None
    /\ UNCHANGED <<table_vars, xgps, xatt, ingest_vars, connections, ws,
                   status, bridge, parser_vars, hist>>

\* The set iterator's check on every next(): RuntimeError "Set changed size
\* during iteration" when the set's size is not the one recorded.
set_changed_size(used, conns) == Cardinality(conns) # used

\* A prune pass that removes nothing.
prune_none(conns, stale) == [conns |-> conns, exc |-> "none"]

\* "for ws in stale_connections: self.connections.remove(ws)", in order;
\* the first absent element raises KeyError.
RECURSIVE prune(_, _)
prune(conns, stale) ==
    IF stale = <<>> THEN [conns |-> conns, exc |-> "none"]
    ELSE IF Head(stale) \notin conns THEN [conns |-> conns, exc |-> "KeyError"]
    ELSE prune(conns \ {Head(stale)}, Tail(stale))

\* The for statement asks the iterator for the next websocket.  When the
\* iterator is exhausted the prune pass runs and the loop goes to sleep.
IterNext ==
    /\ bcast_pc = "next"
    /\ IF set_changed_size(it_used, connections)
       THEN /\ bcast_pc' = "aborted"
            /\ it_todo' = {}
            /\ ws' = 0
            /\ UNCHANGED connections
       ELSE IF it_todo = {}
       THEN /\ connections' = prune(connections, stale_connections).conns
            /\ bcast_pc' =
                   IF prune(connections, stale_connections).exc = "none"
                   THEN "sleep" ELSE "aborted"
            /\ ws' = 0
            /\ UNCHANGED it_todo
       ELSE /\ \E w \in it_todo :
                   /\ ws' = w
                   /\ it_todo' = it_todo \ {w}
            /\ bcast_pc' = "send"
            /\ UNCHANGED connections
    /\ UNCHANGED <<table_vars, simdata_vars, ingest_vars, snapshot_vars,
                   it_used, stale_connections, status, bridge, parser_vars,
                   hist>>

\* ws.send succeeds on an open connection and raises ConnectionClosed (or
\* another exception) otherwise; both except clauses append to the list.
send_ok(st) == st = "open"

\* "await ws.send(message)" completes, one way or the other.
SendDone ==
    /\ bcast_pc = "send"
    /\ IF send_ok(status[ws])
       THEN /\ hist' = [hist EXCEPT !.sent_count[ws] = @ + 1]
            /\ UNCHANGED stale_connections
       ELSE /\ stale_connections' = Append(stale_connections, ws)
            /\ UNCHANGED hist
    /\ bcast_pc' = "next"
    /\ UNCHANGED <<table_vars, simdata_vars, ingest_vars, snapshot_vars,
                   connections, it_used, it_todo, ws, status, bridge,
                   parser_vars>>

\* asyncio.sleep(self.send_interval) is over: the next tick begins.
SleepDone ==
    /\ bridge = "running"
    /\ bcast_pc = "sleep"
    /\ bcast_pc' = "snapshot"
    /\ hist' = [hist EXCEPT !.joined_after = {}, !.tick_clean = TRUE,
                            !.sent_count = NoCount]
    /\ UNCHANGED <<table_vars, simdata_vars, ingest_vars, snapshot_vars,
                   connections, iter_vars, status, bridge, parser_vars>>

(***************************************************************************)
(* ForeFlightToShirleyBridge.run under asyncio.run                         *)
(***************************************************************************)
TaskFailed ==
    \/ ingest_pc \in {"failed", "bind_failed"}
    \/ bcast_pc \in {"aborted", "serve_failed"}

\* Positions at which a task is suspended in an await (or has ended).
IngestAwaiting ==
    ingest_pc \in {"recv", "update_from_xgps", "update_from_xatt", "failed",
                   "bind_failed"}

BcastAwaiting ==
    bcast_pc \in {"serve", "snapshot", "send", "sleep", "aborted",
                  "serve_failed"}

\* A handler cancelled by asyncio.run runs its finally block.
cancelled_status(st, c, conns) ==
    IF st \in {"open", "closed"}
    THEN (IF c \in conns THEN "done" ELSE "keyerror")
    ELSE st

\* gather() hands the first exception to bridge.run(), which raises it to
\* asyncio.run(); asyncio.run() cancels every task that is left.
BridgeFail ==
    /\ bridge = "running"
    /\ TaskFailed
    /\ IngestAwaiting
    /\ BcastAwaiting
    /\ bridge' = "shutdown"
    /\ ingest_pc' = IF ingest_pc \in {"failed", "bind_failed"} THEN ingest_pc
                    ELSE "cancelled"
    /\ bcast_pc' = IF bcast_pc \in {"aborted", "serve_failed"} THEN bcast_pc
                   ELSE "cancelled"
    /\ status' = [c \in Conns |-> cancelled_status(status[c], c, connections)]
    /\ connections' = {c \in connections : status[c] \notin {"open", "closed"}}
    /\ it_todo' = {}
    /\ hist' = DirtyTick(hist)
    /\ UNCHANGED <<table_vars, simdata_vars, parsed_obj, recv_thread,
                   snapshot_vars, it_used, ws, stale_connections,
                   parser_vars>>

\* A datagram arrives after the shutdown began: recvfrom returns in the
\* worker thread and the thread ends; nobody reads the result.
LateDatagram ==
    /\ bridge = "shutdown"
    /\ recv_thread = "blocked"
    /\ recv_thread' = "idle"
    /\ UNCHANGED <<table_vars, simdata_vars, ingest_pc, parsed_obj, bcast_pc,
                   snapshot_vars, connections, iter_vars, status, bridge,
                   parser_vars, hist>>

\* asyncio.run() shuts the default executor down, which joins the worker
\* thread (and the interpreter joins it again at exit): the process ends
\* only once no worker is blocked in recvfrom.
BridgeExit ==
    /\ bridge = "shutdown"
    /\ recv_thread = "idle"
    /\ bridge' = "exited"
    /\ UNCHANGED <<table_vars, simdata_vars, ingest_vars, bcast_pc,
                   snapshot_vars, connections, iter_vars, status,
                   parser_vars, hist>>

(***************************************************************************)
(* The bridge.                                                             *)
(***************************************************************************)
Next ==
    \/ IngestBind
    \/ \E dgram \in Datagrams : IngestRecv(dgram)
    \/ IngestRecvError
    \/ UpdateAcquire
    \/ update_from_xgps
    \/ update_from_xatt
    \/ \E c \in Conns : HandlerAccept(c)
    \/ \E c \in Conns : HandlerClose(c)
    \/ \E c \in Conns : HandlerFinally(c)
    \/ \E c \in Conns : NewWebsocket(c)
    \/ ServerServe
    \/ SnapshotAcquire
    \/ SnapshotReadXgps
    \/ SnapshotReadXatt
    \/ SnapshotReturn
    \/ IterNext
    \/ SendDone
    \/ SleepDone
    \/ BridgeFail
    \/ LateDatagram
    \/ BridgeExit

Spec == Init /\ [][Next]_vars

(***************************************************************************)
(* The bridge with no subscriber ever connecting: ingest, SimData and the  *)
(* snapshot side of the broadcast loop in every interleaving.  Every step  *)
(* of NextData is a step of Next.                                          *)
(***************************************************************************)
NextData ==
    \/ IngestBind
    \/ \E dgram \in Datagrams : IngestRecv(dgram)
    \/ IngestRecvError
    \/ UpdateAcquire
    \/ update_from_xgps
    \/ update_from_xatt
    \/ ServerServe
    \/ SnapshotAcquire
    \/ SnapshotReadXgps
    \/ SnapshotReadXatt
    \/ SnapshotReturn
    \/ IterNext
    \/ SleepDone
    \/ BridgeFail
    \/ LateDatagram
    \/ BridgeExit

SpecData == Init /\ [][NextData]_vars

(***************************************************************************)
(* SpecData under the scheduling asyncio gives it.  The event loop runs    *)
(* every task that is ready; asyncio.Lock hands the lock to its waiters in *)
(* the order they came, so a task that asks for the lock again and again   *)
(* gets it (strong fairness of the two acquisitions); the exception of a   *)
(* finished task reaches the orchestrator.  Nothing obliges a producer to  *)
(* send a datagram.                                                        *)
(***************************************************************************)
FairData ==
    /\ SpecData
    /\ WF_vars(IngestBind)
    /\ SF_vars(UpdateAcquire)
    /\ WF_vars(update_from_xgps)
    /\ WF_vars(update_from_xatt)
    /\ WF_vars(ServerServe)
    /\ SF_vars(SnapshotAcquire)
    /\ WF_vars(SnapshotReadXgps)
    /\ WF_vars(SnapshotReadXatt)
    /\ WF_vars(SnapshotReturn)
    /\ WF_vars(IterNext)
    /\ WF_vars(SleepDone)
    /\ SF_vars(BridgeFail)

(***************************************************************************)
(* The bridge with a producer that repeats one position datagram: the      *)
(* subscribers, their handlers and the broadcast loop in every             *)
(* interleaving.  Every step of NextFanout is a step of Next.              *)
(***************************************************************************)
NextFanout ==
    \/ IngestBind
    \/ IngestRecv(DgramG1)
    \/ IngestRecvError
    \/ UpdateAcquire
    \/ update_from_xgps
    \/ \E c \in Conns : HandlerAccept(c)
    \/ \E c \in Conns : HandlerClose(c)
    \/ \E c \in Conns : HandlerFinally(c)
    \/ ServerServe
    \/ SnapshotAcquire
    \/ SnapshotReadXgps
    \/ SnapshotReadXatt
    \/ SnapshotReturn
    \/ IterNext
    \/ SendDone
    \/ SleepDone
    \/ BridgeFail
    \/ LateDatagram
    \/ BridgeExit

SpecFanout == Init /\ [][NextFanout]_vars

(***************************************************************************)
(* The bridge under the scheduling asyncio gives it: a task that can take  *)
(* a step takes it, and the exception of a finished task reaches the       *)
(* orchestrator.  Nothing obliges a producer to send or a peer to act.     *)
(***************************************************************************)
FairFanout ==
    /\ SpecFanout
    /\ WF_vars(UpdateAcquire)
    /\ WF_vars(update_from_xgps)
    /\ WF_vars(SnapshotAcquire)
    /\ WF_vars(SnapshotReadXgps)
    /\ WF_vars(SnapshotReadXatt)
    /\ WF_vars(SnapshotReturn)
    /\ WF_vars(IterNext)
    /\ WF_vars(SendDone)
    /\ WF_vars(SleepDone)
    /\ SF_vars(BridgeFail)
    /\ WF_vars(BridgeExit)

(***************************************************************************)
(* The bridge with a silent producer: the ingest task binds and waits in   *)
(* its receive, the subscribers, their handlers and the broadcast loop run *)
(* in every interleaving.  Every step of NextSubscribers is a step of      *)
(* Next.                                                                   *)
(***************************************************************************)
NextSubscribers ==
    \/ IngestBind
    \/ \E c \in Conns : HandlerAccept(c)
    \/ \E c \in Conns : HandlerClose(c)
    \/ \E c \in Conns : HandlerFinally(c)
    \/ ServerServe
    \/ SnapshotAcquire
    \/ SnapshotReadXgps
    \/ SnapshotReadXatt
    \/ SnapshotReturn
    \/ IterNext
    \/ SendDone
    \/ SleepDone
    \/ BridgeFail
    \/ LateDatagram
    \/ BridgeExit

SpecSubscribers == Init /\ [][NextSubscribers]_vars

(***************************************************************************)
(* SpecSubscribers with connections that come and go for as long as the    *)
(* bridge runs.  Every step of NextChurn is a step of Next.                *)
(***************************************************************************)
NextChurn ==
    \/ NextSubscribers
    \/ \E c \in Conns : NewWebsocket(c)

SpecChurn == Init /\ [][NextChurn]_vars

(***************************************************************************)
(* SpecSubscribers under the scheduling asyncio gives it, connection       *)
(* handlers included: a handler whose connection has closed is a ready     *)
(* task, and the event loop runs it at one of the broadcast loop's awaits. *)
(* Nothing obliges a peer to connect or to close.                          *)
(***************************************************************************)
FairHandlers ==
    /\ SpecSubscribers
    /\ WF_vars(IngestBind)
    /\ WF_vars(ServerServe)
    /\ WF_vars(SnapshotAcquire)
    /\ WF_vars(SnapshotReadXgps)
    /\ WF_vars(SnapshotReadXatt)
    /\ WF_vars(SnapshotReturn)
    /\ WF_vars(IterNext)
    /\ WF_vars(SendDone)
    /\ WF_vars(SleepDone)
    /\ SF_vars(BridgeFail)
    /\ \A c \in Conns : SF_vars(HandlerFinally(c))

(***************************************************************************)
(* The parser alone: parse_line applied to one line drawn from a bounded   *)
(* set of lines: optional leading blank, a prefix, a name, up to MaxFields *)
(* further comma-separated fields.                                         *)
(***************************************************************************)
Prefixes == {XGPS, XATT, <<"X", "G", "P">>}

Names == {<<>>, <<"a">>, <<"a", " ">>}

FieldTexts == {<<" ", "7">>, <<"-", "2", "0">>, <<"x">>}

Leads == {<<>>, <<" ">>}

RECURSIVE JoinFields(_)
JoinFields(fs) ==
    IF fs = <<>> THEN <<>>
    ELSE <<",">> \o Head(fs) \o JoinFields(Tail(fs))

FieldLists == UNION {[1..n -> FieldTexts] : n \in 0..MaxFields}

ParseLines ==
    {lead \o pre \o name \o JoinFields(fs) :
        lead \in Leads, pre \in Prefixes, name \in Names, fs \in FieldLists}

ParseInit ==
    /\ xgps = None
    /\ xatt = None
    /\ lock = "free"
    /\ ingest_pc = "bind"
    /\ parsed_obj = None
    /\ recv_thread = "idle"
    /\ bcast_pc = "serve"
    /\ l_xgps = None
    /\ l_xatt = None
    /\ data = None
    /\ connections = {}
    /\ set_fill = 0
    /\ set_mask = PySet_MINSIZE - 1
    /\ it_used = 0
    /\ it_todo = {}
    /\ ws = 0
    /\ stale_connections = <<>>
    /\ status = [c \in Conns |-> "new"]
    /\ bridge = "running"
    /\ line \in ParseLines
    /\ result = None
    /\ hist = HistInit

ParseLine ==
    /\ result = None
    /\ result' = parse_line(line)
    /\ UNCHANGED <<table_vars, simdata_vars, ingest_vars, bcast_pc,
                   snapshot_vars, connections, iter_vars, status, bridge,
                   line, hist>>

SpecParse == ParseInit /\ [][ParseLine]_vars

(***************************************************************************)
(* The parser on the lines a producer builds: prefix, name, and the        *)
(* numeric fields written out in decimal, joined by commas.                *)
(***************************************************************************)
\* str(n) for a natural number n: its decimal digits.
RECURSIVE NatText(_)
NatText(n) ==
    IF n < 10 THEN <<DigitChars[n + 1]>>
    ELSE Append(NatText(n \div 10), DigitChars[(n % 10) + 1])

\* str(n) for an integer n.
NumText(n) == IF n < 0 THEN <<"-">> \o NatText(0 - n) ELSE NatText(n)

RECURSIVE JoinNums(_)
JoinNums(ns) ==
    IF ns = <<>> THEN <<>>
    ELSE <<",">> \o NumText(Head(ns)) \o JoinNums(Tail(ns))

\* "XGPS" or "XATT", the name, then "," and a number for every field.
BuildLine(prefix, name, ns) == prefix \o name \o JoinNums(ns)

NameChars == {"a", " "}

SimNames == UNION {[1..n -> NameChars] : n \in 0..MaxNameLen}

FieldValues == {0 - 20, 7}

BuildInputs ==
    {[prefix |-> XGPS, name |-> nm, nums |-> ns] :
        nm \in SimNames, ns \in [1..5 -> FieldValues]}
    \cup
    {[prefix |-> XATT, name |-> nm, nums |-> ns] :
        nm \in SimNames, ns \in [1..3 -> FieldValues]}

RoundTripInit ==
    /\ xgps = None
    /\ xatt = None
    /\ lock = "free"
    /\ ingest_pc = "bind"
    /\ parsed_obj = None
    /\ recv_thread = "idle"
    /\ bcast_pc = "serve"
    /\ l_xgps = None
    /\ l_xatt = None
    /\ data = None
    /\ connections = {}
    /\ set_fill = 0
    /\ set_mask = PySet_MINSIZE - 1
    /\ it_used = 0
    /\ it_todo = {}
    /\ ws = 0
    /\ stale_connections = <<>>
    /\ status = [c \in Conns |-> "new"]
    /\ bridge = "running"
    /\ line \in {BuildLine(b.prefix, b.name, b.nums) : b \in BuildInputs}
    /\ result = None
    /\ hist = HistInit

SpecRoundTrip == RoundTripInit /\ [][ParseLine]_vars

(***************************************************************************)
(* Properties.                                                             *)
(***************************************************************************)
InUpdate == ingest_pc \in {"xgps_locked", "xatt_locked"}

InSnapshot == bcast_pc \in {"snap_xgps", "snap_xatt", "snap_return"}

\* The step in which get_data_snapshot returns its dictionary.
SnapshotReturns == bcast_pc = "snap_return" /\ bcast_pc' = "next"

\* The step in which a send to ws completes without raising.
SendSucceeds ==
    bcast_pc = "send" /\ bcast_pc' = "next" /\ status[ws] = "open"

ZeroAttitude ==
    [rollAngleDegRight |-> 0, pitchAngleDegUp |-> 0, trueHeadingDeg |-> 0]

ZeroPosition ==
    [latitudeDeg |-> 0, longitudeDeg |-> 0, mslAltitudeFt |-> 0,
     gpsGroundSpeedKts |-> 0]

\* The attitude block the merge rule prescribes for stored records g and a.
AttitudeOf(g, a) ==
    IF a # None
    THEN [rollAngleDegRight |-> a.roll_deg,
          pitchAngleDegUp |-> a.pitch_deg,
          trueHeadingDeg |-> a.heading_deg % 360]
    ELSE IF g # None
    THEN [rollAngleDegRight |-> 0,
          pitchAngleDegUp |-> 0,
          trueHeadingDeg |-> g.track_deg % 360]
    ELSE ZeroAttitude

\* C1 (as claimed): whatever the subscribers' connections do while a tick
\* is in progress, the broadcast loop never ends with an exception.
C1_BroadcastLoopNeverAborts == bcast_pc # "aborted"

\* C2: update_from_xgps, update_from_xatt and get_data_snapshot are never
\* inside the lock-guarded section together; whoever is inside holds the
\* lock; and what the snapshot has read so far is what is stored now, so no
\* update takes effect between its two reads or before it returns.
C2_SnapshotMutualExclusion ==
    /\ ~(InUpdate /\ InSnapshot)
    /\ InUpdate => lock = "ingest"
    /\ InSnapshot => lock = "bcast"
    /\ bcast_pc \in {"snap_xatt", "snap_return"} => l_xgps = xgps
    /\ bcast_pc = "snap_return" => l_xatt = xatt

\* C2 witness: the snapshot is between its two reads while an update that
\* carries a different position record waits for the lock.
C2_Witness ==
    /\ bcast_pc = "snap_xatt"
    /\ ingest_pc = "update_from_xgps"
    /\ xgps # None
    /\ parsed_obj # xgps

C4_AllDefaultsWithoutPosition ==
    [][(SnapshotReturns /\ xgps = None) =>
        /\ data'.position = ZeroPosition
        /\ data'.attitude = ZeroAttitude]_vars

\* C4 (amended): with no position record stored the four position values
\* of a returned snapshot are 0; heading, pitch and roll are 0 when no
\* attitude record is stored either, and otherwise are the stored attitude
\* record's heading mod 360, pitch and roll.
C4_PositionDefaultsWithoutPosition ==
    [][(SnapshotReturns /\ xgps = None) =>
        /\ data'.position = ZeroPosition
        /\ xatt = None => data'.attitude = ZeroAttitude
        /\ xatt # None =>
               data'.attitude =
                   [rollAngleDegRight |-> xatt.roll_deg,
                    pitchAngleDegUp |-> xatt.pitch_deg,
                    trueHeadingDeg |-> xatt.heading_deg % 360]]_vars

\* C4 witness: a snapshot returned with an attitude record but no position
\* record stored; its pitch is the record's, not 0.
C4_Witness ==
    /\ bcast_pc = "next"
    /\ xgps = None
    /\ xatt # None /\ xatt.pitch_deg # 0
    /\ data # None /\ data.attitude.pitchAngleDegUp = xatt.pitch_deg
    /\ data.position = ZeroPosition

\* C5: whenever the ingest loop is back at its receive, the stored position
\* record is the last datagram that parsed as XGPS (None if there was none)
\* and the stored attitude record the last that parsed as XATT, each whole.
C5_LastValueWins ==
    ingest_pc = "recv" =>
        /\ xgps = hist.last_xgps
        /\ xatt = hist.last_xatt

\* C5 witness: the loop is back at its receive with the second position
\* datagram stored, while the snapshot taken earlier still shows the first
\* one: a record was replaced, and an attitude record is stored beside it.
C5_Witness ==
    /\ ingest_pc = "recv"
    /\ xgps # None /\ xgps.latitude = 8
    /\ xatt # None
    /\ data # None /\ data.position.latitudeDeg = 2

\* C6: at the end of a tick during which no connection joined or closed,
\* every websocket whose connection is closed is out of the active set and
\* every open one is in it and was sent exactly one message.
C6_SubscriberIsolation ==
    (bcast_pc = "sleep" /\ hist.tick_clean) =>
        \A c \in Conns :
            /\ status[c] # "open" => c \notin connections
            /\ status[c] = "open" =>
                   c \in connections /\ hist.sent_count[c] = 1

\* C6 witness: a tick without connection events has ended; one subscriber's
\* send failed and it was pruned, another's succeeded.
C6_Witness ==
    /\ bcast_pc = "sleep"
    /\ hist.tick_clean
    /\ \E f \in Conns, g \in Conns :
           /\ status[f] = "closed"
           /\ InSeq(f, stale_connections)
           /\ f \notin connections
           /\ status[g] = "open"
           /\ g \in connections
           /\ hist.sent_count[g] = 1

\* C7 (as claimed): no send delivers this tick's snapshot to a subscriber
\* that joined after the snapshot was computed.
C7_OnlySnapshotsComputedAfterJoin ==
    [][SendSucceeds => ws \notin hist.joined_after]_vars

\* C8 (as claimed): once a long-running task has ended with an error the
\* process eventually terminates, with no further datagram needed.
C8_FailureShutsBridgeDown == TaskFailed ~> (bridge = "exited")

ParseStripped == strip(line)

ParseParts == split(SubSeq(ParseStripped, 5, Len(ParseStripped)))

HasXGPS == startswith(ParseStripped, XGPS)

HasXATT == startswith(ParseStripped, XATT)

\* Some field among the first n after the name does not convert.
NonNumericWithin(n) ==
    \E i \in 2..(n + 1) :
        i <= Len(ParseParts) /\ float(ParseParts[i]).exc # "none"

\* C9: parse_line returns one of the three record kinds and never raises;
\* a line without the XGPS/XATT prefix, or with the prefix and fewer than
\* 6 (resp. 4) fields or a non-numeric numeric field, is UnknownData; and
\* parsing the line again gives the classification already obtained.
C9_ParseAbsorbsErrors ==
    result # None =>
        /\ result.type \in {"XGPSData", "XATTData", "UnknownData"}
        /\ (~HasXGPS /\ ~HasXATT) => result.type = "UnknownData"
        /\ (HasXGPS /\ (Len(ParseParts) < 6 \/ NonNumericWithin(5)))
               => result.type = "UnknownData"
        /\ (HasXATT /\ (Len(ParseParts) < 4 \/ NonNumericWithin(3)))
               => result.type = "UnknownData"
        /\ parse_line(line).type = result.type

\* C9 witness: an XATT line with too few fields was parsed to UnknownData.
C9_Witness ==
    /\ result # None
    /\ HasXATT
    /\ Len(ParseParts) = 3
    /\ ~NonNumericWithin(3)
    /\ result.type = "UnknownData"

\* C10 (as claimed): a position record comes only from exactly 6 fields,
\* an attitude record only from exactly 4; any other count is UnknownData.
C10_ExactFieldCount ==
    result # None =>
        /\ result.type = "XGPSData" => Len(ParseParts) = 6
        /\ result.type = "XATTData" => Len(ParseParts) = 4
        /\ (HasXGPS /\ Len(ParseParts) # 6) => result.type = "UnknownData"
        /\ (HasXATT /\ Len(ParseParts) # 4) => result.type = "UnknownData"

\* C10 (amended): a position record comes only from an XGPS line with at
\* least 6 fields, an attitude record only from an XATT line with at least
\* 4; fewer fields give UnknownData; fields past the 6th (4th) are ignored,
\* so a line with more fields whose first 5 (3) numeric fields convert is
\* still parsed into a record.
C10_AtLeastFieldCount ==
    result # None =>
        /\ result.type = "XGPSData" => HasXGPS /\ Len(ParseParts) >= 6
        /\ result.type = "XATTData" => HasXATT /\ Len(ParseParts) >= 4
        /\ (HasXGPS /\ Len(ParseParts) < 6) => result.type = "UnknownData"
        /\ (HasXATT /\ Len(ParseParts) < 4) => result.type = "UnknownData"
        /\ (HasXGPS /\ Len(ParseParts) > 6 /\ ~NonNumericWithin(5))
               => result.type = "XGPSData"
        /\ (HasXATT /\ Len(ParseParts) > 4 /\ ~NonNumericWithin(3))
               => result.type = "XATTData"

\* C10 witness: a line with seven fields was parsed into a position record.
C10_Witness ==
    /\ result # None
    /\ Len(ParseParts) = 7
    /\ result.type = "XGPSData"

\* The step in which the ingest loop receives and parses one datagram.
DatagramReceived == \E dgram \in Datagrams : IngestRecv(dgram)

\* The step in which an update stores the parsed record.
UpdateStores ==
    ingest_pc \in {"xgps_locked", "xatt_locked"} /\ ingest_pc' = "recv"

UpdatePending == ingest_pc \in {"update_from_xgps", "update_from_xatt"}

\* The pending record has been stored and the loop is back at its receive.
UpdateApplied ==
    /\ ingest_pc = "recv"
    /\ parsed_obj \in {xgps, xatt}

\* C12: as long as the bridge runs, broadcast ticks end (the loop reaches
\* its sleep) again and again, whether or not a datagram ever arrives; a
\* record parsed from a datagram is eventually stored, with the ingest loop
\* back at its receive, however the ticks go on; and at no suspension point
\* does the ingest task or the broadcast task hold the lock.
C12_NoMutualStarvation ==
    /\ []<>(bcast_pc = "sleep" \/ bridge # "running")
    /\ UpdatePending ~> (UpdateApplied \/ bridge # "running")
    /\ [](IngestAwaiting => lock # "ingest")
    /\ [](BcastAwaiting => lock # "bcast")

\* C12 witness: a tick has ended that showed the first position record,
\* and the ingest loop, back at its receive, has since stored the second.
C12_Witness ==
    /\ bcast_pc = "sleep"
    /\ data # None /\ data.position.latitudeDeg = 2
    /\ ingest_pc = "recv"
    /\ xgps # None /\ xgps.latitude = 8

\* A step of the broadcast side: the server starts, a tick advances, or a
\* subscriber is accepted.
BroadcastWorks ==
    \/ bcast_pc' \notin {bcast_pc, "cancelled"}
    \/ \E c \in Conns : c \in connections' /\ c \notin connections

\* C13 (as claimed): once one service has failed to bind or listen, the
\* other does no work: after a failed websockets.serve the ingest loop
\* neither receives a datagram nor stores a record, and after a failed UDP
\* bind the broadcast side neither starts, ticks nor accepts a subscriber.
C13_NoPartialStart ==
    [][/\ bcast_pc = "serve_failed" => ~(DatagramReceived \/ UpdateStores)
       /\ ingest_pc = "bind_failed" => ~BroadcastWorks]_vars

Returned(c) == status[c] \in {"done", "keyerror"}

\* C14: a websocket enters the active set in the step that accepts it and
\* in no other step, so it is never added a second time; once its handler
\* has returned it is not a member; and every websocket whose connection
\* has closed is eventually out of the set, by its handler's cleanup, by the
\* prune pass after a failed send, or by the shutdown.
C14_MembershipFollowsLifetime ==
    /\ [][\A c \in Conns :
              /\ (status[c] = "new" /\ status'[c] = "open")
                     => c \in connections'
              /\ (c \notin connections /\ c \in connections')
                     => status[c] = "new"]_vars
    /\ [](\A c \in Conns : Returned(c) => c \notin connections)
    /\ \A c \in Conns : (status[c] = "closed") ~> (c \notin connections)

\* C14 witness: one websocket's handler has returned after removing it;
\* another, closed, failed a send and was removed by the prune pass; neither
\* is a member.
C14_Witness ==
    \E c \in Conns, d \in Conns :
        /\ status[c] = "done"
        /\ c \notin connections
        /\ status[d] = "closed"
        /\ InSeq(d, stale_connections)
        /\ d \notin connections

\* C15 (as claimed): a tick sends the one snapshot it computed, and sends
\* it to no subscriber more than once.
C15_OneMessagePerTick == \A c \in Conns : hist.sent_count[c] <= 1

\* The record whose fields are the inputs b the line was built from, with
\* the name as nm.
RecordOf(b, nm) ==
    IF b.prefix = XGPS
    THEN [type |-> "XGPSData",
          sim_name |-> nm,
          longitude |-> b.nums[1],
          latitude |-> b.nums[2],
          alt_msl_meters |-> b.nums[3],
          track_deg |-> b.nums[4],
          ground_speed_mps |-> b.nums[5]]
    ELSE [type |-> "XATTData",
          sim_name |-> nm,
          heading_deg |-> b.nums[1],
          pitch_deg |-> b.nums[2],
          roll_deg |-> b.nums[3]]

BuiltFrom(b) == line = BuildLine(b.prefix, b.name, b.nums)

\* C16 (as claimed): parsing a line built from a comma-free name and
\* numeric values gives the record of the matching kind whose name and
\* numeric fields are exactly those inputs.
C16_RoundTripExact ==
    result # None =>
        \A b \in BuildInputs : BuiltFrom(b) => result = RecordOf(b, b.name)

\* C16 (amended): parsing such a line gives the record of the matching kind
\* whose numeric fields are exactly the input values and whose name is the
\* input name with its leading and trailing whitespace removed; the name
\* itself is returned only when it neither starts nor ends with whitespace.
C16_RoundTripStrippedName ==
    result # None =>
        \A b \in BuildInputs :
            BuiltFrom(b) =>
                /\ result = RecordOf(b, strip(b.name))
                /\ (result.sim_name = b.name) <=> (strip(b.name) = b.name)

\* C16 witness: a position line whose name starts with a blank and whose
\* fields include a negative value was parsed; the record has the values
\* and the name without the blank.
C16_Witness ==
    /\ result # None
    /\ result.type = "XGPSData"
    /\ \E b \in BuildInputs :
           /\ BuiltFrom(b)
           /\ b.name = <<" ", "a">>
           /\ b.nums[1] = 0 - 20
           /\ result.sim_name = <<"a">>
           /\ result.longitude = 0 - 20

PositionFields ==
    {"latitudeDeg", "longitudeDeg", "mslAltitudeFt", "gpsGroundSpeedKts"}

AttitudeFields == {"rollAngleDegRight", "pitchAngleDegUp", "trueHeadingDeg"}

\* C17: a snapshot returned while no position and no attitude record is
\* stored, whatever datagrams were received and dropped before, has the
\* four position fields and the three attitude fields, each equal to 0.
C17_NoDataDefault ==
    [][(SnapshotReturns /\ xgps = None /\ xatt = None) =>
        /\ DOMAIN data' = {"position", "attitude"}
        /\ DOMAIN data'.position = PositionFields
        /\ DOMAIN data'.attitude = AttitudeFields
        /\ \A f \in PositionFields : data'.position[f] = 0
        /\ \A f \in AttitudeFields : data'.attitude[f] = 0]_vars

\* C17 witness: a snapshot of seven zeros was returned after a datagram
\* had been received and dropped as UnknownData, with no record stored.
C17_Witness ==
    /\ bcast_pc = "next"
    /\ hist.unknown_seen
    /\ xgps = None /\ xatt = None
    /\ hist.last_xgps = None /\ hist.last_xatt = None
    /\ data = [position |-> ZeroPosition, attitude |-> ZeroAttitude]

\* C18 (as claimed): while the broadcast loop is inside its iteration over
\* the set, suspended in a send, no handler adds a websocket to the set or
\* removes one from it.
C18_SetStableDuringIteration ==
    [][bcast_pc = "send" => connections' = connections]_vars

\* The step in which update_from_xgps stores a position record.
PositionStored == ingest_pc = "xgps_locked" /\ ingest_pc' = "recv"

\* C19: update_from_xgps leaves the stored attitude record as it is, and
\* every snapshot returned while an attitude record is stored takes its
\* heading (mod 360), pitch and roll from that record, however recent the
\* stored position record is: the position record's track is not the
\* heading unless the two agree mod 360.
C19_AttitudeOutlivesPositionUpdates ==
    [][/\ PositionStored => xatt' = xatt
       /\ (SnapshotReturns /\ xatt # None) =>
              /\ data'.attitude.trueHeadingDeg = xatt.heading_deg % 360
              /\ data'.attitude.pitchAngleDegUp = xatt.pitch_deg
              /\ data'.attitude.rollAngleDegRight = xatt.roll_deg
              /\ (xgps # None /\
                  xgps.track_deg % 360 # xatt.heading_deg % 360) =>
                     data'.attitude.trueHeadingDeg # xgps.track_deg % 360]_vars

\* C19 witness: the last datagram received was the second position record,
\* stored after the first attitude record; the snapshot returned since
\* shows the new position and the old attitude record's heading, 355, not
\* the new track, 90.
C19_Witness ==
    /\ bcast_pc = "next"
    /\ ingest_pc = "recv"
    /\ parsed_obj.type = "XGPSData"
    /\ xgps = parsed_obj /\ xgps.track_deg = 90
    /\ xatt # None /\ xatt.heading_deg = 0 - 5
    /\ data # None
    /\ data.position.latitudeDeg = 8
    /\ data.attitude.trueHeadingDeg = 355

\* The step in which a handler's cleanup, run by the handler or by its
\* cancellation, takes websocket c out of the set.
CleanupRemoves(c) ==
    status[c] \in {"open", "closed"} /\ status'[c] \in {"done", "keyerror"}

\* The step in which the prune pass runs.
PrunePass ==
    /\ bcast_pc = "next"
    /\ bcast_pc' \in {"sleep", "aborted"}
    /\ ~set_changed_size(it_used, connections)

\* C20 (as claimed): every websocket the prune pass removes, and every
\* websocket a handler's cleanup removes, is a member of the set at that
\* moment, so neither removal raises KeyError.
C20_RemovalsHitMembers ==
    [][/\ \A c \in Conns : CleanupRemoves(c) => c \in connections
       /\ PrunePass => prune(connections, stale_connections).exc = "none"]_vars

====
